---- MODULE Spec2Model ----
(***************************************************************************)
(* Model of server_dashboard.py: one run of the Streamlit script as a      *)
(* state machine.  The inputs of a run (the two uploaded files, the        *)
(* slider value, the wall clock) are chosen in Init; every action is one   *)
(* section of the script, and `out` is the sequence of elements the run    *)
(* has rendered so far.                                                    *)
(***************************************************************************)
EXTENDS Integers, Sequences, FiniteSets

VARIABLES
    new_report_file,    \* the "Upload New Report" widget value (None or a file)
    old_report_file,    \* the "Upload Old Report" widget value (None or a file)
    days_threshold,     \* the slider value
    now,                \* what datetime.now() returns in this run (days)
    pos,                \* stream position of each uploaded file object
    pc,                 \* the section of the script the run is about to execute
    out,                \* the elements rendered so far, in order
    loaded,             \* which of df_new, df_old, df have been bound
    added_hosts, removed_hosts,
    df, df_columns, inactive_hosts_df, active_hosts_df,
    version_counts, net_client_counts, error_df, mismatch_df

vars == <<new_report_file, old_report_file, days_threshold, now, pos, pc, out,
          loaded, added_hosts, removed_hosts, df, df_columns,
          inactive_hosts_df, active_hosts_df, version_counts, net_client_counts, error_df,
          mismatch_df>>

-----------------------------------------------------------------------------
(* Values *)

None == [ext |-> "none"]          \* no file uploaded
NaN  == "NaN"                     \* pandas' missing cell
NaT  == -1                        \* pandas' missing timestamp

MaxRows == 3                      \* rows per uploaded table

min_value == 1
max_value == 120
value     == 30

required_columns ==
    << "Host Name", "Network Location (from client)",
       "Network Location (from server)", "Valid Key", "Using TLS",
       "Send State", "Receive State", "Status", "Registration Error",
       "Last Registration", "Version" >>

Range(s) == {s[i] : i \in DOMAIN s}

AllColumns == Range(required_columns)

-----------------------------------------------------------------------------
(* File reading: read_file, pd.read_csv, pd.read_excel *)

\* The DataFrame a decoder builds from a file's rows: a RangeIndex label is
\* attached to every row.
DataFrame(f) ==
    [i \in 1..Len(f.rows) |->
        [idx |-> i, host |-> f.rows[i].host, locC |-> f.rows[i].locC,
         locS |-> f.rows[i].locS, err |-> f.rows[i].err,
         lastReg |-> f.rows[i].lastReg, ver |-> f.rows[i].ver]]

\* pd.read_csv(buffer): parses from the buffer's current position and leaves
\* the buffer at its end; at end of stream there is nothing to parse.
pd_read_csv(f, p) ==
    IF p = "eof"
    THEN [raised |-> TRUE, msg |-> "No columns to parse from file",
          table |-> <<>>, cols |-> {}, tz |-> FALSE, pos |-> "eof"]
    ELSE IF ~f.ok
    THEN [raised |-> TRUE, msg |-> "Error tokenizing data",
          table |-> <<>>, cols |-> {}, tz |-> FALSE, pos |-> "eof"]
    ELSE [raised |-> FALSE, msg |-> "", table |-> DataFrame(f),
          cols |-> f.cols, tz |-> f.tz, pos |-> "eof"]

\* pd.read_excel(buffer, engine='openpyxl'): the reader seeks to 0 before it
\* loads the workbook, so the position it is given does not matter.
pd_read_excel(f, p) ==
    IF ~f.ok
    THEN [raised |-> TRUE, msg |-> "File is not a zip file",
          table |-> <<>>, cols |-> {}, tz |-> FALSE, pos |-> "eof"]
    ELSE [raised |-> FALSE, msg |-> "", table |-> DataFrame(f),
          cols |-> f.cols, tz |-> f.tz, pos |-> "eof"]

read_file(uploaded_file, p) ==
    IF uploaded_file.ext = "csv"
    THEN pd_read_csv(uploaded_file, p)
    ELSE pd_read_excel(uploaded_file, p)

-----------------------------------------------------------------------------
(* pandas operations used by the script *)

\* Series.unique(): the distinct values in order of first occurrence.
RECURSIVE unique(_)
unique(s) ==
    IF s = <<>> THEN <<>>
    ELSE LET u == unique(SubSeq(s, 1, Len(s) - 1))
             x == s[Len(s)]
         IN IF x \in Range(u) THEN u ELSE Append(u, x)

Count(s, v) == Cardinality({i \in DOMAIN s : s[i] = v})

\* Puts p behind every pair whose count is at least p's (s is sorted).
InsertByCount(s, p) ==
    LET n == Cardinality({i \in DOMAIN s : s[i].count >= p.count})
    IN SubSeq(s, 1, n) \o <<p>> \o SubSeq(s, n + 1, Len(s))

RECURSIVE SortByCount(_)
SortByCount(ps) ==
    IF ps = <<>> THEN <<>>
    ELSE InsertByCount(SortByCount(SubSeq(ps, 1, Len(ps) - 1)), ps[Len(ps)])

\* value_counts(dropna=False): missing values are counted as a value.
value_counts_keepna(s) ==
    LET vals == unique(s)
    IN SortByCount([i \in DOMAIN vals |->
                       [value |-> vals[i], count |-> Count(s, vals[i])]])

\* Series.value_counts().reset_index(): dropna=True is the default, so
\* missing values are not counted; descending by count, ties in order of
\* first occurrence.
value_counts(s) ==
    LET present == SelectSeq(s, LAMBDA v : v # NaN)
        vals    == unique(present)
    IN SortByCount([i \in DOMAIN vals |->
                       [value |-> vals[i], count |-> Count(present, vals[i])]])

\* pd.to_datetime(x, errors='coerce') on one cell: a cell that holds a
\* timestamp (a day number >= 0) parses to it, any other cell becomes NaT.
to_datetime(v) == IF v >= 0 THEN v ELSE NaT

\* dropna without inplace=True: the result is discarded.
dropna_discarded(d) == d

\* df.dropna(subset=['Last Registration'])
dropna(d) == SelectSeq(d, LAMBDA r : r.lastReg # NaT)

\* Series.notna()
notna(v) == v # NaN

\* Inequality by value, a missing value being equal to a missing value.
ne_by_value(a, b) == a # b

\* Elementwise != of two object columns: a missing value is unequal to
\* everything, itself included.
ne(a, b) == a = NaN \/ b = NaN \/ a # b

\* set(df['Host Name'].unique())
HostSet(d) == Range(unique([i \in DOMAIN d |-> d[i].host]))

\* new_hosts ^ old_hosts
SetDifference_symmetric(a, b) == (a \ b) \cup (b \ a)

\* new_hosts - old_hosts
SetDifference(a, b) == a \ b

\* Only the new report is checked for the column.
ComparisonPossible_new_only(colsNew, colsOld) == "Host Name" \in colsNew

\* line 64
ComparisonPossible(colsNew, colsOld) ==
    "Host Name" \in colsNew /\ "Host Name" \in colsOld

\* any(...) in place of all(...)
HasRequiredColumns_any(cols) ==
    \E i \in DOMAIN required_columns : required_columns[i] \in cols

\* all(col in df.columns for col in required_columns)
HasRequiredColumns(cols) ==
    \A i \in DOMAIN required_columns : required_columns[i] \in cols

\* The f-string of st.error names ', '.join(required_columns).
MissingColumnsError(cols) ==
    [k |-> "error_missing_columns", cols |-> required_columns]

\* > in place of >=
IsActive_strict(r, cutoff_date) == r.lastReg > cutoff_date

IsInactive(r, cutoff_date) == r.lastReg < cutoff_date
IsActive(r, cutoff_date)   == r.lastReg >= cutoff_date

\* The mask without the comparison with 'None'.
HasError_notna_only(r) == notna(r.err)

\* The mask of error_df.
HasError(r) == notna(r.err) /\ r.err # "None"

\* The mask of mismatch_df.
IsMismatch(r) == ne(r.locC, r.locS)

-----------------------------------------------------------------------------
(* Rendering *)

El(k) == [k |-> k]

Kinds(o) == {o[i].k : i \in DOMAIN o}

Rendered(k) == k \in Kinds(out)

\* A handler that renders a fixed message without {e}.
ExceptHandler_no_cause(o, msg) ==
    Append(o, [k |-> "error_exception", msg |-> ""])

\* except Exception as e: st.error(f"... {e}")
ExceptHandler(o, msg) == Append(o, [k |-> "error_exception", msg |-> msg])

-----------------------------------------------------------------------------
(* The sections of the single-report analysis, as functions of their inputs *)

\* lines 57-88: the comparison of the two uploaded reports.
CompareSection(new_file, old_file, p) ==
    LET head == << El("header_comparison") >>
        rn == read_file(new_file, p.new)
        ro == read_file(old_file, p.old)
        new_hosts == HostSet(rn.table)
        old_hosts == HostSet(ro.table)
        added     == SetDifference(new_hosts, old_hosts)
        removed   == SetDifference(old_hosts, new_hosts)
    IN IF rn.raised
       THEN [raised |-> TRUE, msg |-> rn.msg, out |-> head,
             pos |-> [p EXCEPT !.new = rn.pos], loaded |-> {},
             added_hosts |-> {}, removed_hosts |-> {}]
       ELSE IF ro.raised
       THEN [raised |-> TRUE, msg |-> ro.msg, out |-> head,
             pos |-> [p EXCEPT !.new = rn.pos, !.old = ro.pos],
             loaded |-> {"df_new"},
             added_hosts |-> {}, removed_hosts |-> {}]
       ELSE IF ComparisonPossible(rn.cols, ro.cols)
       THEN [raised |-> FALSE, msg |-> "",
             out |-> head \o
                << [k |-> "added_hosts", n |-> Cardinality(added),
                    hosts |-> added],
                   [k |-> "removed_hosts", n |-> Cardinality(removed),
                    hosts |-> removed] >>,
             pos |-> [p EXCEPT !.new = rn.pos, !.old = ro.pos],
             loaded |-> {"df_new", "df_old"},
             added_hosts |-> added, removed_hosts |-> removed]
       ELSE [raised |-> FALSE, msg |-> "",
             out |-> Append(head, El("error_comparison")),
             pos |-> [p EXCEPT !.new = rn.pos, !.old = ro.pos],
             loaded |-> {"df_new", "df_old"},
             added_hosts |-> {}, removed_hosts |-> {}]

\* lines 108-117: what the cleaning leaves in df and what it renders.
CleanSection(d) ==
    LET parsed == [i \in DOMAIN d |-> [d[i] EXCEPT !.lastReg = to_datetime(@)]]
        original_rows == Len(parsed)
        kept == dropna(parsed)
    IN [df  |-> kept,
        out |-> (IF Len(kept) < original_rows
                 THEN << [k |-> "warning_dropped", n |-> original_rows - Len(kept)] >>
                 ELSE <<>>)
                \o << [k |-> "success", n |-> Len(kept)] >>]

\* lines 120-132.  A column parsed from offset-carrying timestamps is
\* tz-aware, and comparing it with the naive datetime.now() raises TypeError.
ClassifySection(d, tz, threshold, clock) ==
    LET cutoff_date == clock - threshold
        inactive == SelectSeq(d, LAMBDA r : IsInactive(r, cutoff_date))
        active   == SelectSeq(d, LAMBDA r : IsActive(r, cutoff_date))
        head     == << [k |-> "subheader_activity", n |-> threshold] >>
    IN IF tz /\ d # <<>>
       THEN [raised |-> TRUE,
             msg |-> "Cannot compare tz-naive and tz-aware datetime-like objects",
             inactive |-> <<>>, active |-> <<>>, out |-> head]
       ELSE [raised |-> FALSE, msg |-> "",
             inactive |-> inactive, active |-> active,
             out |-> head \o
                << [k |-> "inactive", n |-> Len(inactive), rows |-> inactive],
                   [k |-> "active", n |-> Len(active), rows |-> active] >>]

\* lines 135-156
VisualizeSection(a) ==
    LET vc == value_counts([i \in DOMAIN a |-> a[i].ver])
        nc == value_counts([i \in DOMAIN a |-> a[i].locC])
    IN [version_counts |-> vc, net_client_counts |-> nc,
        out |-> << El("header_visualizations"),
                   [k |-> "status_pie", n |-> Len(a)],
                   [k |-> "version_bar", counts |-> vc],
                   [k |-> "tls_pie", n |-> Len(a)],
                   [k |-> "net_client_bar", counts |-> nc] >>]

\* The three columns st.dataframe shows of a mismatch row (line 178).
MismatchColumns(r) ==
    [idx |-> r.idx, host |-> r.host, locC |-> r.locC, locS |-> r.locS]

\* lines 159-180
AdditionalSection(a) ==
    LET e == SelectSeq(a, HasError)
        m == SelectSeq(a, IsMismatch)
    IN [error_df |-> e, mismatch_df |-> m,
        out |-> << El("header_additional") >>
                \o (IF e # <<>>
                    THEN << [k |-> "error_bar",
                             counts |-> value_counts([i \in DOMAIN e |-> e[i].err])] >>
                    ELSE << El("info_no_errors") >>)
                \o (IF m # <<>>
                    THEN << [k |-> "mismatch_table",
                             rows |-> [i \in DOMAIN m |-> MismatchColumns(m[i])]] >>
                    ELSE << El("info_no_mismatch") >>)]

-----------------------------------------------------------------------------
(* Inputs *)

FileRow(h, lc, ls, e, t, v) ==
    [host |-> h, locC |-> lc, locS |-> ls, err |-> e, lastReg |-> t, ver |-> v]

Tables(pool) == UNION {[1..n -> pool] : n \in 0..MaxRows}

File(x, okay, c, z, r) ==
    [ext |-> x, ok |-> okay, cols |-> c, tz |-> z, rows |-> r]

Exts == {"csv", "xlsx"}

Thresholds == min_value..max_value

\* Readings of the wall clock, in days since the oldest timestamp a report
\* holds.
Nows == {121, 122}

Fresh == [new |-> "start", old |-> "start"]

InitRest ==
    /\ pos = Fresh
    /\ pc = "start"
    /\ out = <<>>
    /\ loaded = {}
    /\ added_hosts = {}
    /\ removed_hosts = {}
    /\ df = <<>>
    /\ df_columns = {}
    /\ inactive_hosts_df = <<>>
    /\ active_hosts_df = <<>>
    /\ version_counts = <<>>
    /\ net_client_counts = <<>>
    /\ error_df = <<>>
    /\ mismatch_df = <<>>

\* Any combination of files, with few distinct rows.
CtlRows ==
    { FileRow("A", "L1", "L1", NaN, 100, "v1"),
      FileRow("B", "L1", "L2", "E1", -2, "v2") }

CtlCols ==
    { AllColumns, AllColumns \ {"Using TLS"}, AllColumns \ {"Host Name"} }

CtlFiles ==
    { File(x, FALSE, {}, FALSE, <<>>) : x \in Exts }
    \cup { File(x, TRUE, c, z, r) :
              x \in Exts, c \in CtlCols, z \in BOOLEAN, r \in Tables(CtlRows) }

CtlOldFiles ==
    { File(x, FALSE, {}, FALSE, <<>>) : x \in Exts }
    \cup { File(x, TRUE, c, FALSE, <<r>>) :
              x \in Exts, c \in {AllColumns, AllColumns \ {"Host Name"}},
              r \in CtlRows }

InitControl ==
    /\ new_report_file \in {None} \cup CtlFiles
    /\ old_report_file \in {None} \cup CtlOldFiles
    /\ days_threshold = value
    /\ now \in Nows

\* One valid report, every slider value, rows that differ in Last Registration.
RegCells == {-2, 1, 91}

RegRows == { FileRow("A", "L1", "L1", NaN, t, "v1") : t \in RegCells }

InitClassify ==
    /\ new_report_file \in
          { File("csv", TRUE, AllColumns, FALSE, r) : r \in Tables(RegRows) }
    /\ old_report_file = None
    /\ days_threshold \in Thresholds
    /\ now \in Nows

\* One valid report, rows that differ in the two location columns.
Locations == {NaN, "L1", "L2"}

LocRows ==
    { FileRow("A", lc, ls, NaN, 121, "v1") : lc \in Locations, ls \in Locations }
    \cup { FileRow("B", "L1", "L2", NaN, 0, "v1") }

InitLocations ==
    /\ new_report_file \in
          { File("xlsx", TRUE, AllColumns, FALSE, r) : r \in Tables(LocRows) }
    /\ old_report_file = None
    /\ days_threshold = value
    /\ now \in Nows

\* One valid report, rows that differ in Registration Error and Version.
Errors == {NaN, "None", "E1", "E2"}

Versions == {NaN, "v1", "v2"}

ErrRows ==
    { FileRow("A", "L1", "L1", e, 121, v) : e \in Errors, v \in Versions }
    \cup { FileRow("B", "L1", "L1", "E1", 0, "v1") }

InitErrors ==
    /\ new_report_file \in
          { File("csv", TRUE, AllColumns, FALSE, r) : r \in Tables(ErrRows) }
    /\ old_report_file = None
    /\ days_threshold = value
    /\ now \in Nows

\* Two valid reports, rows that differ in Host Name.  Only the set of its
\* host names is read from the old report, so its rows are listed in
\* host-name order (repeated names included).
HostList == <<"A", "B", "C", "D">>

Hosts == Range(HostList)

HostRow(h) == FileRow(h, "L1", "L1", NaN, 121, "v1")

HostRows == { HostRow(h) : h \in Hosts }

OrderedTables ==
    { [i \in DOMAIN t |-> HostRow(HostList[t[i]])] :
        t \in { u \in UNION {[1..n -> DOMAIN HostList] : n \in 0..MaxRows} :
                  \A i \in DOMAIN u : i > 1 => u[i - 1] <= u[i] } }

InitCompare ==
    /\ new_report_file \in
          { File("xlsx", TRUE, AllColumns, FALSE, r) : r \in Tables(HostRows) }
    /\ old_report_file \in
          { File("csv", TRUE, AllColumns, FALSE, r) : r \in OrderedTables }
    /\ days_threshold = value
    /\ now \in Nows

Init ==
    /\ \/ InitControl
       \/ InitClassify
       \/ InitLocations
       \/ InitErrors
       \/ InitCompare
    /\ InitRest

-----------------------------------------------------------------------------
(* The script *)

Results == <<added_hosts, removed_hosts, df, df_columns, inactive_hosts_df,
             active_hosts_df, version_counts, net_client_counts, error_df,
             mismatch_df>>

Inputs == <<new_report_file, old_report_file, days_threshold, now>>

\* line 54, 185-186
Awaiting ==
    /\ pc = "start"
    /\ new_report_file = None
    /\ out' = Append(out, El("info_awaiting"))
    /\ pc' = "done"
    /\ UNCHANGED <<Inputs, pos, loaded, Results>>

\* lines 57-88
Compare ==
    /\ pc = "start"
    /\ new_report_file # None
    /\ old_report_file # None
    /\ LET s == CompareSection(new_report_file, old_report_file, pos)
       IN /\ out' = IF s.raised THEN ExceptHandler(out \o s.out, s.msg)
                    ELSE out \o s.out
          /\ pc' = IF s.raised THEN "done" ELSE "single"
          /\ pos' = s.pos
          /\ loaded' = loaded \cup s.loaded
          /\ added_hosts' = s.added_hosts
          /\ removed_hosts' = s.removed_hosts
    /\ UNCHANGED <<Inputs, df, df_columns, inactive_hosts_df, active_hosts_df,
                   version_counts, net_client_counts, error_df, mismatch_df>>

\* lines 91-92
SingleLoad ==
    /\ \/ pc = "single"
       \/ pc = "start" /\ new_report_file # None /\ old_report_file = None
    /\ LET o1 == Append(out, El("header_single"))
           r  == read_file(new_report_file, pos.new)
       IN /\ pos' = [pos EXCEPT !.new = r.pos]
          /\ IF r.raised
             THEN /\ out' = ExceptHandler(o1, r.msg)
                  /\ pc' = "done"
                  /\ UNCHANGED <<loaded, df, df_columns>>
             ELSE /\ out' = o1
                  /\ df' = r.table
                  /\ df_columns' = r.cols
                  /\ loaded' = loaded \cup {"df"}
                  /\ pc' = "validate"
    /\ UNCHANGED <<Inputs, added_hosts, removed_hosts, inactive_hosts_df,
                   active_hosts_df, version_counts, net_client_counts,
                   error_df, mismatch_df>>

\* lines 95-106
Validate ==
    /\ pc = "validate"
    /\ IF ~HasRequiredColumns(df_columns)
       THEN /\ out' = Append(out, MissingColumnsError(df_columns))
            /\ pc' = "done"
       ELSE /\ out' = out
            /\ pc' = "clean"
    /\ UNCHANGED <<Inputs, pos, loaded, Results>>

\* lines 108-117
Clean ==
    /\ pc = "clean"
    /\ LET s == CleanSection(df)
       IN /\ df' = s.df
          /\ out' = out \o s.out
    /\ pc' = "classify"
    /\ UNCHANGED <<Inputs, pos, loaded, added_hosts, removed_hosts, df_columns,
                   inactive_hosts_df, active_hosts_df, version_counts,
                   net_client_counts, error_df, mismatch_df>>

\* lines 120-132
Classify ==
    /\ pc = "classify"
    /\ LET s == ClassifySection(df, new_report_file.tz, days_threshold, now)
       IN IF s.raised
          THEN /\ out' = ExceptHandler(out \o s.out, s.msg)
               /\ pc' = "done"
               /\ UNCHANGED <<inactive_hosts_df, active_hosts_df>>
          ELSE /\ inactive_hosts_df' = s.inactive
               /\ active_hosts_df' = s.active
               /\ out' = out \o s.out
               /\ pc' = "visualize"
    /\ UNCHANGED <<Inputs, pos, loaded, added_hosts, removed_hosts, df, df_columns,
                   version_counts, net_client_counts, error_df, mismatch_df>>

\* lines 135-156
Visualize ==
    /\ pc = "visualize"
    /\ LET s == VisualizeSection(active_hosts_df)
       IN /\ version_counts' = s.version_counts
          /\ net_client_counts' = s.net_client_counts
          /\ out' = out \o s.out
    /\ pc' = "additional"
    /\ UNCHANGED <<Inputs, pos, loaded, added_hosts, removed_hosts, df, df_columns,
                   inactive_hosts_df, active_hosts_df, error_df, mismatch_df>>

\* lines 159-180
Additional ==
    /\ pc = "additional"
    /\ LET s == AdditionalSection(active_hosts_df)
       IN /\ error_df' = s.error_df
          /\ mismatch_df' = s.mismatch_df
          /\ out' = out \o s.out
    /\ pc' = "done"
    /\ UNCHANGED <<Inputs, pos, loaded, added_hosts, removed_hosts, df, df_columns,
                   inactive_hosts_df, active_hosts_df, version_counts,
                   net_client_counts>>

Next ==
    \/ Awaiting
    \/ Compare
    \/ SingleLoad
    \/ Validate
    \/ Clean
    \/ Classify
    \/ Visualize
    \/ Additional

Spec == Init /\ [][Next]_vars

-----------------------------------------------------------------------------
(* Vocabulary of the properties *)

CountKind(k) == Cardinality({i \in DOMAIN out : out[i].k = k})

Elem(k) == out[CHOOSE i \in DOMAIN out : out[i].k = k]

Ids(d) == {d[i].idx : i \in DOMAIN d}

RECURSIVE SumCounts(_)
SumCounts(c) ==
    IF c = <<>> THEN 0 ELSE c[Len(c)].count + SumCounts(SubSeq(c, 1, Len(c) - 1))

\* Everything the script renders after a successful validation.
Downstream ==
    { "warning_dropped", "success", "subheader_activity", "inactive", "active",
      "header_visualizations", "status_pie", "version_bar", "tls_pie",
      "net_client_bar", "header_additional", "error_bar", "info_no_errors",
      "mismatch_table", "info_no_mismatch" }

BothLoaded == {"df_new", "df_old"} \subseteq loaded

TwoFiles == new_report_file # None /\ old_report_file # None

\* Rows of the uploaded new report whose Last Registration does not parse.
Unparseable == {i \in DOMAIN new_report_file.rows : new_report_file.rows[i].lastReg < 0}

-----------------------------------------------------------------------------
(* C1 *)

\* C1: a loaded new-report table that lacks a required column gets exactly
\* one missing-columns error, which names all 11 required columns, and
\* nothing downstream of the validation is rendered in that run.
C1_SchemaValidation ==
    ("df" \in loaded /\ ~(AllColumns \subseteq new_report_file.cols)) =>
        /\ Kinds(out) \cap Downstream = {}
        /\ pc \in {"validate", "done"}
        /\ pc = "done" =>
              /\ CountKind("error_missing_columns") = 1
              /\ Elem("error_missing_columns").cols = required_columns
              /\ Cardinality(Range(Elem("error_missing_columns").cols)) = 11
              /\ out[Len(out)].k = "error_missing_columns"

C1_Witness ==
    /\ pc = "done"
    /\ "df" \in loaded
    /\ new_report_file.cols = AllColumns \ {"Using TLS"}
    /\ Rendered("error_missing_columns")

-----------------------------------------------------------------------------
(* C2 *)

\* C2: once a validated table of N rows, D of them with an unparseable Last
\* Registration, is cleaned, df has exactly N-D rows, each with a parsed
\* Last Registration; the warning is rendered iff D > 0 and states D; the
\* success banner reports N-D and the classification runs on those rows.
C2_RowCleaning ==
    LET N == Len(new_report_file.rows)
        D == Cardinality(Unparseable)
    IN /\ ("df" \in loaded /\ AllColumns \subseteq new_report_file.cols
               /\ pc \notin {"validate", "clean"})
            => Rendered("success")
       /\ Rendered("success") =>
            /\ Len(df) = N - D
            /\ Ids(df) = DOMAIN new_report_file.rows \ Unparseable
            /\ \A i \in DOMAIN df :
                  /\ df[i].lastReg # NaT
                  /\ df[i].lastReg = new_report_file.rows[df[i].idx].lastReg
            /\ Rendered("warning_dropped") <=> D > 0
            /\ CountKind("warning_dropped") <= 1
            /\ D > 0 => Elem("warning_dropped").n = D
            /\ CountKind("success") = 1
            /\ Elem("success").n = N - D
            /\ Rendered("active") =>
                  Len(active_hosts_df) + Len(inactive_hosts_df) = N - D

C2_Witness ==
    /\ pc = "done"
    /\ Rendered("warning_dropped")
    /\ Elem("warning_dropped").n = 2
    /\ Elem("success").n = 1
    /\ Len(active_hosts_df) = 1

-----------------------------------------------------------------------------
(* C3 *)

-----------------------------------------------------------------------------
(* C4 *)

HostNames(f) == {f.rows[i].host : i \in DOMAIN f.rows}

\* C4: when both loaded tables have a Host Name column, Added is the set of
\* host names of the new report that the old one lacks and Removed the
\* reverse, with duplicates collapsed: Added and Removed are disjoint,
\* Added with the common hosts is the new host set and Removed with the
\* common hosts the old one; old {A,B,C} and new {B,C,D} give [D] and [A].
C4_ComparatorSets ==
    (BothLoaded /\ "Host Name" \in new_report_file.cols
                /\ "Host Name" \in old_report_file.cols) =>
          LET new == HostNames(new_report_file)
              old == HostNames(old_report_file)
          IN /\ Rendered("added_hosts")
             /\ Rendered("removed_hosts")
             /\ \A h \in new \cup old \cup added_hosts \cup removed_hosts :
                   /\ h \in added_hosts <=> (h \in new /\ h \notin old)
                   /\ h \in removed_hosts <=> (h \in old /\ h \notin new)
             /\ added_hosts \cap removed_hosts = {}
             /\ added_hosts \cup (new \cap old) = new
             /\ removed_hosts \cup (new \cap old) = old
             /\ Elem("added_hosts").hosts = added_hosts
             /\ Elem("added_hosts").n = Cardinality(added_hosts)
             /\ Elem("removed_hosts").hosts = removed_hosts
             /\ Elem("removed_hosts").n = Cardinality(removed_hosts)

C4_Witness ==
    /\ Rendered("added_hosts")
    /\ HostNames(old_report_file) = {"A", "B", "C"}
    /\ HostNames(new_report_file) = {"B", "C", "D"}
    /\ Elem("added_hosts").hosts = {"D"}
    /\ Elem("removed_hosts").hosts = {"A"}

\* Repeated host names collapse.
C4_DuplicatesReached ==
    /\ Rendered("added_hosts")
    /\ Len(new_report_file.rows) = 3
    /\ HostNames(new_report_file) = {"B", "C"}
    /\ Len(old_report_file.rows) = 3
    /\ HostNames(old_report_file) = {"A", "B"}
    /\ added_hosts = {"C"}
    /\ removed_hosts = {"A"}

-----------------------------------------------------------------------------
(* C5 *)

\* C5: with two loaded files of which one lacks Host Name, the comparison
\* error is rendered, no added/removed output is produced and the run still
\* enters the single-report section; and when both have Host Name the
\* added/removed output is produced even if the new report lacks another
\* required column.
C5_IndependentSchemaChecks ==
    /\ (BothLoaded /\ ("Host Name" \notin new_report_file.cols
                         \/ "Host Name" \notin old_report_file.cols)) =>
          /\ CountKind("error_comparison") = 1
          /\ ~Rendered("added_hosts")
          /\ ~Rendered("removed_hosts")
          /\ pc = "single" \/ Rendered("header_single")
    /\ (BothLoaded /\ "Host Name" \in new_report_file.cols
                   /\ "Host Name" \in old_report_file.cols
                   /\ ~(AllColumns \subseteq new_report_file.cols)) =>
          /\ Rendered("added_hosts")
          /\ Rendered("removed_hosts")
          /\ ~Rendered("error_comparison")

C5_Witness ==
    /\ pc = "done"
    /\ BothLoaded
    /\ "Host Name" \notin old_report_file.cols
    /\ Rendered("error_comparison")
    /\ Rendered("header_single")
    /\ Rendered("header_additional")

\* The converse case of C5 is reachable as well.
C5_ConverseReached ==
    /\ pc = "done"
    /\ BothLoaded
    /\ Rendered("added_hosts")
    /\ Rendered("error_missing_columns")

-----------------------------------------------------------------------------
(* C6 *)

IsPrefix(a, b) == Len(a) <= Len(b) /\ SubSeq(b, 1, Len(a)) = a

\* The order of the script's sections.
Rank(p) ==
    CASE p = "start" -> 0
      [] p = "single" -> 1
      [] p = "validate" -> 2
      [] p = "clean" -> 3
      [] p = "classify" -> 4
      [] p = "visualize" -> 5
      [] p = "additional" -> 6
      [] p = "done" -> 7

LastIsException(msg) ==
    /\ out # <<>>
    /\ out[Len(out)].k = "error_exception"
    /\ out[Len(out)].msg = msg

ParseErrorText(f) ==
    IF f.ext = "csv" THEN "Error tokenizing data" ELSE "File is not a zip file"

\* What one run can raise, from its inputs alone.
NewUnreadable == new_report_file # None /\ ~new_report_file.ok

OldUnreadable == TwoFiles /\ new_report_file.ok /\ ~old_report_file.ok

RereadFails ==
    TwoFiles /\ new_report_file.ok /\ old_report_file.ok
        /\ new_report_file.ext = "csv"

TzCompareFails ==
    /\ new_report_file # None
    /\ new_report_file.ok
    /\ old_report_file # None => (old_report_file.ok /\ new_report_file.ext = "xlsx")
    /\ AllColumns \subseteq new_report_file.cols
    /\ new_report_file.tz
    /\ DOMAIN new_report_file.rows # Unparseable

C6_Boundary ==
    /\ CountKind("error_exception") <= 1
    /\ Rendered("error_exception") =>
          /\ pc = "done"
          /\ out[Len(out)].k = "error_exception"
          /\ NewUnreadable \/ OldUnreadable \/ RereadFails \/ TzCompareFails
    /\ pc = "done" =>
          /\ NewUnreadable =>
                /\ LastIsException(ParseErrorText(new_report_file))
                /\ Kinds(out) \subseteq
                      {"header_comparison", "header_single", "error_exception"}
          /\ OldUnreadable =>
                /\ LastIsException(ParseErrorText(old_report_file))
                /\ Kinds(out) = {"header_comparison", "error_exception"}
          /\ RereadFails =>
                /\ LastIsException("No columns to parse from file")
                /\ Rendered("header_single")
                /\ Rendered("added_hosts") \/ Rendered("error_comparison")
                /\ Kinds(out) \cap Downstream = {}
          /\ TzCompareFails =>
                /\ LastIsException(
                      "Cannot compare tz-naive and tz-aware datetime-like objects")
                /\ Rendered("success")
                /\ Rendered("subheader_activity")
                /\ ~Rendered("inactive")
                /\ ~Rendered("header_visualizations")

\* C6: an exception raised by either load or at any later step is rendered
\* as exactly one error message carrying its cause text, nothing is rendered
\* after it, what was rendered before it stays, and the run always goes on
\* to its end: every step moves to a later section, or to the end.
C6_ExceptionBoundary ==
    /\ []C6_Boundary
    /\ [][/\ IsPrefix(out, out')
          /\ Rank(pc') > Rank(pc)
          /\ Rendered("error_exception") => out' = out]_vars

C6_Witness ==
    /\ pc = "done"
    /\ TzCompareFails
    /\ TwoFiles
    /\ Rendered("added_hosts")
    /\ Rendered("warning_dropped")
    /\ Rendered("error_exception")

-----------------------------------------------------------------------------
(* C7 *)

WellFormedCounts(c) ==
    /\ \A i \in DOMAIN c : c[i].count >= 1
    /\ \A i, j \in DOMAIN c : i # j => c[i].value # c[j].value

\* C7 as stated: the counts sum to the number of Active rows.
C7_CountsSumToRows ==
    Rendered("header_additional") =>
        /\ WellFormedCounts(version_counts)
        /\ SumCounts(version_counts) = Len(active_hosts_df)
        /\ WellFormedCounts(net_client_counts)
        /\ SumCounts(net_client_counts) = Len(active_hosts_df)
        /\ Rendered("error_bar") =>
              /\ WellFormedCounts(Elem("error_bar").counts)
              /\ SumCounts(Elem("error_bar").counts) = Len(error_df)

ExactCounts(c, vals) ==
    /\ WellFormedCounts(c)
    /\ {c[i].value : i \in DOMAIN c} = Range(vals) \ {NaN}
    /\ \A i \in DOMAIN c :
          c[i].count = Cardinality({j \in DOMAIN vals : vals[j] = c[i].value})
    /\ SumCounts(c) = Cardinality({j \in DOMAIN vals : vals[j] # NaN})

\* C7 (amended): for each counted column the counts sum to the number of
\* input rows whose value in that column is not missing (for Registration
\* Error after restriction that is every input row); every count is >= 1 and
\* is the number of rows with that value, and no value appears twice.
C7_CountsSumToPresentRows ==
    Rendered("header_additional") =>
        LET a == active_hosts_df
        IN /\ ExactCounts(version_counts, [i \in DOMAIN a |-> a[i].ver])
           /\ Elem("version_bar").counts = version_counts
           /\ ExactCounts(net_client_counts, [i \in DOMAIN a |-> a[i].locC])
           /\ Elem("net_client_bar").counts = net_client_counts
           /\ Rendered("error_bar") =>
                 /\ ExactCounts(Elem("error_bar").counts,
                                [i \in DOMAIN error_df |-> error_df[i].err])
                 /\ SumCounts(Elem("error_bar").counts) = Len(error_df)

C7_Witness ==
    /\ Rendered("header_additional")
    /\ \E i \in DOMAIN active_hosts_df : active_hosts_df[i].ver = NaN
    /\ \E i \in DOMAIN version_counts : version_counts[i].count = 2
    /\ SumCounts(version_counts) < Len(active_hosts_df)
    /\ Rendered("error_bar")

-----------------------------------------------------------------------------
(* C8 *)

MismatchRendering ==
    /\ mismatch_df = <<>> =>
          Rendered("info_no_mismatch") /\ ~Rendered("mismatch_table")
    /\ mismatch_df # <<>> =>
          /\ ~Rendered("info_no_mismatch")
          /\ Elem("mismatch_table").rows =
                [i \in DOMAIN mismatch_df |->
                    [idx |-> mismatch_df[i].idx, host |-> mismatch_df[i].host,
                     locC |-> mismatch_df[i].locC, locS |-> mismatch_df[i].locS]]

-----------------------------------------------------------------------------
(* C9 *)

\* C9: the error chart counts exactly the Active rows whose Registration
\* Error is present and is not the text "None"; when there is no such row
\* (an empty Active table included) "no errors found" is rendered and no
\* chart, otherwise the chart is rendered over exactly those rows.
C9_ErrorFrequency ==
    Rendered("header_additional") =>
        LET a == active_hosts_df
            E == {i \in DOMAIN a : a[i].err # NaN /\ a[i].err # "None"}
        IN /\ Ids(error_df) = {a[i].idx : i \in E}
           /\ Len(error_df) = Cardinality(E)
           /\ E = {} => Rendered("info_no_errors") /\ ~Rendered("error_bar")
           /\ E # {} =>
                 /\ ~Rendered("info_no_errors")
                 /\ CountKind("error_bar") = 1
                 /\ LET c == Elem("error_bar").counts
                    IN /\ {c[i].value : i \in DOMAIN c} = {a[i].err : i \in E}
                       /\ \A i \in DOMAIN c :
                             c[i].count =
                                Cardinality({j \in E : a[j].err = c[i].value})
                       /\ SumCounts(c) = Cardinality(E)

C9_Witness ==
    /\ Rendered("error_bar")
    /\ \E i \in DOMAIN active_hosts_df : active_hosts_df[i].err = "None"
    /\ \E i \in DOMAIN active_hosts_df : active_hosts_df[i].err = "E2"
    /\ \E i \in DOMAIN inactive_hosts_df : inactive_hosts_df[i].err = "E1"
    /\ SumCounts(Elem("error_bar").counts) = 1

\* The other branch of C9: Active rows, none with an error.
C9_NoErrorsReached ==
    /\ Rendered("info_no_errors")
    /\ active_hosts_df # <<>>
    /\ \E i \in DOMAIN active_hosts_df : active_hosts_df[i].err = "None"

-----------------------------------------------------------------------------
(* C10 *)

AnalysisKinds == Downstream \cup {"error_missing_columns"}

\* The single-report analysis a run has rendered.
Analysis(o) == SelectSeq(o, LAMBDA e : e.k \in AnalysisKinds)

\* The single-report analysis of a run that is given the new report alone:
\* lines 91-180 from a freshly uploaded file.
AloneAnalysis(f, threshold, clock) ==
    LET r == read_file(f, "start")
    IN IF r.raised THEN <<>>
       ELSE IF ~HasRequiredColumns(r.cols) THEN << MissingColumnsError(r.cols) >>
       ELSE LET c == CleanSection(r.table)
                s == ClassifySection(c.df, r.tz, threshold, clock)
            IN IF s.raised THEN c.out \o s.out
               ELSE c.out \o s.out \o VisualizeSection(s.active).out
                        \o AdditionalSection(s.active).out

\* C10: with a parseable old report supplied as well, the single-report
\* analysis of the new report is the one a run renders when the new report
\* is supplied alone with the same threshold and clock.
C10_NonInterference ==
    (pc = "done" /\ TwoFiles /\ old_report_file.ok) =>
        Analysis(out) = AloneAnalysis(new_report_file, days_threshold, now)

\* A run with the new report alone renders AloneAnalysis.
C10_AloneRun ==
    (pc = "done" /\ new_report_file # None /\ old_report_file = None) =>
        Analysis(out) = AloneAnalysis(new_report_file, days_threshold, now)

\* The comparison does not interfere when the new report is a spreadsheet.
C10_SpreadsheetOnly ==
    (pc = "done" /\ TwoFiles /\ old_report_file.ok
        /\ new_report_file.ext = "xlsx") =>
        Analysis(out) = AloneAnalysis(new_report_file, days_threshold, now)

====
